---------------------------- MODULE Spec2Model ----------------------------
(***************************************************************************)
(* Cursor-reactive ripple overlay of the Carbon-Chunk model viewer.        *)
(*                                                                         *)
(* The repository holds several revisions of the viewer.  Each revision    *)
(* that registers interactive surfaces is a "build" of the model:          *)
(*   "main"  src/main.js                 standalone, UV-only shader        *)
(*   "p6"    src/unnamed/part_006        standalone, UV + world fallback   *)
(*   "tsxA"  src/src/ModelViewer.tsx     lines   1-171, manual raycast     *)
(*   "tsxB"  src/src/ModelViewer.tsx     lines 172-274, shared overlayMat  *)
(*   "tsC"   src/src/ModelViewer.ts      lines 228-330, r3f pointer events *)
(*   "p0"    src/unnamed/part_000        lines   1-79, one shared material *)
(*   "cls"   src/src/ModelViewer.ts      lines 1-227, class ModelViewer    *)
(*                                                                         *)
(* Lengths and coordinates are fixed point, 1000 units = 1.0.  Camera,     *)
(* orbit controls and the model's auto-rotation only decide which object   *)
(* the ray hits; they are folded into the nondeterministic raycast result. *)
(***************************************************************************)
EXTENDS Integers, Sequences, FiniteSets, TLC

VARIABLES
    build,        \* which revision runs
    overlayRev,   \* which createOverlayRipple revision a React build imports
    asset,        \* meshes of the loaded glTF scene (modelRoot / prepared)
    material,     \* child.material of each mesh: "base" or the "ripple" shader
    loaded,       \* modelRoot !== null / the component has rendered
    entries,      \* registry: entries[] / overlayMats.current + hitTargets.current
    now,          \* frame timestamp of the animation loop, in ticks
    sharedTime,   \* u_time of the shared overlayMat of build tsxB
    rippleMat,    \* uniforms of the one rippleMat of build p0
    viewer,       \* fields and DOM elements of class ModelViewer (build cls)
    probe,        \* one evaluation of a fragment shader on drawn inputs
    hitMarker,    \* the red hit-marker sphere of the standalone builds
    faulted,      \* an exception escaped a handler
    last          \* the event handled last

vars == <<build, overlayRev, asset, material, loaded, entries, now, sharedTime,
          rippleMat, viewer, probe, hitMarker, faulted, last>>

-----------------------------------------------------------------------------
(* Bounds of the model *)

MaxMeshes == 2
MaxTicks == 2
MaxLoads == 2

-----------------------------------------------------------------------------
(* Fixed-point helpers *)

Unit == 10 * 100

Abs(x) == IF x < 0 THEN 0 - x ELSE x
Max(a, b) == IF a >= b THEN a ELSE b
Min(a, b) == IF a <= b THEN a ELSE b
Clamp(x, lo, hi) == Min(Max(x, lo), hi)

RECURSIVE SqrtIter(_, _, _)
SqrtIter(n, lo, hi) ==
    IF lo >= hi THEN lo
    ELSE LET mid == (lo + hi + 1) \div 2
         IN  IF mid * mid <= n THEN SqrtIter(n, mid, hi)
             ELSE SqrtIter(n, lo, mid - 1)

\* floor(sqrt(n)), n >= 0
ISqrt(n) == SqrtIter(n, 0, 46340)

\* GLSL length() of a vec2 / vec3 difference
Length2(p, q) ==
    ISqrt((p[1] - q[1]) * (p[1] - q[1]) + (p[2] - q[2]) * (p[2] - q[2]))
Length3(p, q) ==
    ISqrt((p[1] - q[1]) * (p[1] - q[1]) + (p[2] - q[2]) * (p[2] - q[2])
          + (p[3] - q[3]) * (p[3] - q[3]))

\* GLSL smoothstep(e0, e1, x) for e0 < e1, result in 0..Unit
Smoothstep(e0, e1, x) ==
    LET t == Clamp(((x - e0) * Unit) \div (e1 - e0), 0, Unit)
    IN  (t * t * (3 * Unit - 2 * t)) \div (Unit * Unit)

\* floor(x / y) for y # 0
FloorDiv(x, y) == IF y > 0 THEN x \div y ELSE (0 - x) \div (0 - y)

\* GLSL mod(x, y) = x - y * floor(x / y) for y # 0
GlslMod(x, y) == x - y * FloorDiv(x, y)

\* 1000 * exp(-0.5 * x * x) sampled at x = k/4, k = 0..16
GaussTable == <<1000, 969, 882, 755, 607, 458, 325, 216, 135,
                80, 44, 23, 11, 5, 2, 1, 0>>

\* GLSL exp(-0.5 * x * x), x in fixed point, by linear interpolation
Gauss(x) ==
    LET a == Abs(x)
        k == a \div 250
        r == a % 250
    IN  IF k >= 16 THEN 0
        ELSE GaussTable[k + 1]
             - ((GaussTable[k + 1] - GaussTable[k + 2]) * r) \div 250

-----------------------------------------------------------------------------
(* Scene data *)

Builds == {"main", "p6", "tsxA", "tsxB", "tsC", "p0", "cls"}
Standalone == {"main", "p6"}
ReactBuilds == {"tsxA", "tsxB", "tsC", "p0"}

\* The two u_mouse defaults found among the createOverlayRipple revisions
OverlayRevs == {"hidden", "centre"}

\* u_mouse sentinel (-10,-10) and the fixed centre (0.5,0.5)
Hidden == <<-10000, -10000>>
Center == <<500, 500>>
Origin == <<0, 0, 0>>

\* Surface-parameter and world coordinates a hit or a fragment can have
UVPoints == {<<200, 500>>, <<500, 500>>}
WorldPoints == {<<0, 0, 0>>, <<600, 0, 0>>}
NoUV == <<>>

\* Screen-space footprints fwidth() can return for a fragment
FWidths == {4, 20}

RECURSIVE IsUnder(_, _, _)
\* mesh i is mesh j or one of its descendants
IsUnder(a, i, j) ==
    IF i = j THEN TRUE
    ELSE IF a[i].parent = 0 THEN FALSE
    ELSE IsUnder(a, a[i].parent, j)

\* A mesh: has a uv attribute or not; parent = 0 (not under a mesh) or the
\* index of the mesh it is a child of.  Meshes are listed in traverse order
\* (depth first, parents before children).
MeshSeqs(n) ==
    {s \in [1..n -> [uv : BOOLEAN, parent : 0..n]] :
        \A i \in 1..n :
            /\ s[i].parent < i
            /\ s[i].parent # 0 => IsUnder(s, i - 1, s[i].parent)}

Assets == UNION {MeshSeqs(n) : n \in 0..MaxMeshes}

-----------------------------------------------------------------------------
(* Materials *)

\* The uniforms of one ShaderMaterial.  by: who wrote the current u_mouse
\* ("init", "key", "hide", "hit" = a hit on this entry's own mesh,
\* "other" = a hit on another object)
Mat(mouse, radius, sigma, speed, intensity) ==
    [u_time |-> 0, u_mouse |-> mouse, u_mouseWorld |-> Origin,
     u_useUV |-> TRUE, u_mode |-> 0,
     u_radius |-> radius, u_sigma |-> sigma, u_speed |-> speed,
     u_intensity |-> intensity, by |-> "init"]

\* uniformsTemplate of main.js and of part_006
uniformsTemplate(b) ==
    IF b = "main" THEN Mat(Hidden, 500, 100, 0, 2000)
    ELSE Mat(Hidden, 400, 120, 800, 1000)

\* makeMat() of main.js / makeMat(useUV) of part_006
makeMat(b, useUV) == [uniformsTemplate(b) EXCEPT !.u_useUV = useUV]

\* createOverlayRipple(): the uniforms a fresh overlay material starts with,
\* in the revision that starts hidden and in the one that starts at (0.5,0.5)
createOverlayRipple(rev) ==
    IF rev = "hidden" THEN Mat(Hidden, 300, 50, 2000, 1000)
    ELSE Mat(Center, 340, 80, 500, 550)

\* createRippleMaterial(): the uniforms of the material part_000 shares among
\* all meshes; it has no u_sigma uniform
createRippleMaterial == Mat(Center, 300, 0, 4000, 1000)

Entry(i, m) == [mesh |-> i, mat |-> m]

\* Indices of the meshes of a, in traverse order
Indices(a) == [i \in 1..Len(a) |-> i]

\* The overlay material prepared gives a mesh in ModelViewer.tsx (first
\* revision): diagnostic overrides, ripple shown at the centre
PreparedMatTsxA(rev, hasUV) ==
    [createOverlayRipple(rev) EXCEPT
        !.u_mode = 4, !.u_speed = 0, !.u_radius = 800, !.u_sigma = 200,
        !.u_intensity = 3000, !.u_mouse = Center, !.u_useUV = hasUV]

\* The overlay material prepared gives a mesh in ModelViewer.ts (third revision)
PreparedMatTsC(rev, hasUV) ==
    [createOverlayRipple(rev) EXCEPT
        !.u_intensity = 550, !.u_radius = 340, !.u_sigma = 80, !.u_useUV = hasUV]

\* The material the build's load gives mesh i of asset a
NewMat(b, rev, a, i) ==
    CASE b = "main" -> makeMat(b, TRUE)
      [] b = "p6"   -> makeMat(b, a[i].uv)
      [] b = "tsxA" -> PreparedMatTsxA(rev, a[i].uv)
      [] b = "p0"   -> createRippleMaterial
      [] OTHER      -> PreparedMatTsC(rev, a[i].uv)

\* The meshes the build's traverse registers, in traverse order: main.js
\* keeps only meshes with a uv attribute, the second revision of
\* ModelViewer.tsx registers none
Kept(b, a) ==
    LET withUV(i) == a[i].uv
    IN  CASE b \in {"main", "p0"} -> SelectSeq(Indices(a), withUV)
          [] b = "tsxB" -> <<>>
          [] OTHER      -> Indices(a)

\* child.material of every mesh after the build's load: main.js, part_006 and
\* part_000 assign the ripple ShaderMaterial to the meshes they register; the
\* overlay builds add a child mesh and leave child.material alone
Materials(b, a) ==
    [i \in 1..Len(a) |->
        IF b \in {"main", "p6", "p0"} /\ \E k \in 1..Len(Kept(b, a)) : Kept(b, a)[k] = i
        THEN "ripple" ELSE "base"]

\* The registry a build holds right after loading asset a
Registry(b, rev, a) ==
    LET sel == Kept(b, a)
    IN  [k \in 1..Len(sel) |-> Entry(sel[k], NewMat(b, rev, a, sel[k]))]

-----------------------------------------------------------------------------
(* State *)

Event(k, o, uv, pt, dt) == [kind |-> k, obj |-> o, uv |-> uv, pt |-> pt, dt |-> dt]
Plain(k) == Event(k, 0, NoUV, Origin, 0)
Tick(d) == Event("tick", 0, NoUV, Origin, d)

\* The files the model selector offers; init() loads DefaultFile
Files == {"a.glb", "b.glb"}
DefaultFile == "a.glb"

\* class ModelViewer after its constructor: no model, camera at (5,5,5).  The
\* loading and instructions elements come from the page, which may or may
\* not carry the class "hidden" on them; other builds have no such elements.
\* loads: the file of each loadModel call so far, in call order; pending:
\* the calls still awaiting loader.loadAsync; failed: a load has failed;
\* selection: the loadModel call of the most recent selection, 0 when that
\* was the empty option or nothing was selected yet
NewViewers(b) ==
    [currentModel : {0}, inScene : {{}}, loads : {<<>>}, pending : {{}},
     selection : {0},
     loading : IF b = "cls" THEN BOOLEAN ELSE {FALSE},
     instructions : IF b = "cls" THEN BOOLEAN ELSE {FALSE},
     camera : {"home"}, started : {FALSE}, failed : {FALSE}]

\* No shader evaluation has been probed
NoProbe == [shader |-> "none"]

\* The viewer after construction, before any asset is loaded
ViewerInit ==
    /\ build \in Builds
    /\ overlayRev \in (IF build = "tsC" THEN OverlayRevs ELSE {"hidden"})
    /\ asset = <<>>
    /\ material = <<>>
    /\ loaded = FALSE
    /\ entries = <<>>
    /\ now = 0
    /\ sharedTime = 0
    /\ rippleMat = createRippleMaterial
    /\ viewer \in NewViewers(build)
    /\ hitMarker = [visible |-> FALSE, pos |-> Origin]
    /\ faulted = FALSE
    /\ last = Plain("init")

Init == ViewerInit /\ probe = NoProbe

-----------------------------------------------------------------------------
(* Registry helpers *)

Slots == 1..Len(entries)
Registered(o) == \E k \in Slots : entries[k].mesh = o

\* A surface is ACTIVE when its ripple centre is not the hidden sentinel
Active(e) == e.mat.u_mouse # Hidden
ActiveSlots == {k \in Slots : Active(entries[k])}

\* Objects raycaster.intersectObjects(objs, true) can report: the registered
\* meshes and, because the test is recursive, every mesh under one of them
Hittable(a, reg) ==
    {o \in 1..Len(a) : \E k \in 1..Len(reg) : IsUnder(a, o, reg[k].mesh)}

\* hits[0] of a raycast: hit.uv exists exactly when the mesh has a uv attribute
RayResults(a, reg) ==
    {h \in {Event("hit", o, uv, pt, 0) :
               o \in Hittable(a, reg), uv \in UVPoints \cup {NoUV}, pt \in WorldPoints} :
        (h.uv # NoUV) <=> a[h.obj].uv}
    \cup {Plain("miss")}

\* Mutant of HideMouse: hiding the centre also restarts the clock
HideMouseRestart(e) == [e.mat EXCEPT !.u_mouse = Hidden, !.by = "hide", !.u_time = 0]

\* for (const e of entries) e.mat.uniforms.u_mouse.value.set(-10, -10)
HideMouse(e) == [e.mat EXCEPT !.u_mouse = Hidden, !.by = "hide"]

\* frame deltas / timestamp steps, in ticks
Deltas == {1, 2}

\* Keys pressed: '1' (a display mode only), '2' (fixed pulse at the centre),
\* '3' (back to normal) and a key without a branch in the keydown handlers
Keys == {"1", "2", "3", "x"}
KeyMode(key) ==
    CASE key = "1" -> 1 [] key = "2" -> 2 [] key = "3" -> 0
      [] key = "4" -> 4 [] key = "5" -> 5 [] key = "6" -> 6

\* Body shared by the keydown listener of main.js and onKey of ModelViewer.tsx
KeyMat(key, e) ==
    IF key = "x" THEN e.mat
    ELSE IF key = "2"
    THEN [e.mat EXCEPT !.u_mode = 2, !.u_mouse = Center, !.by = "key"]
    ELSE [e.mat EXCEPT !.u_mode = KeyMode(key)]

\* Mutant of MoveMain: a hit at the centre the surface already has hides it
MoveMainToggle(h, e) ==
    IF h.kind = "hit" /\ h.uv # NoUV /\ e.mesh = h.obj /\ e.mat.u_mouse # h.uv
    THEN [HideMouse(e) EXCEPT !.u_mouse = h.uv, !.by = "hit"]
    ELSE HideMouse(e)

\* What one pointer-move with raycast result h does to the material of e,
\* in each build (the loop bodies of the four handlers)
MoveMain(h, e) ==
    IF h.kind = "hit" /\ h.uv # NoUV /\ e.mesh = h.obj
    THEN [HideMouse(e) EXCEPT !.u_mouse = h.uv, !.by = "hit"]
    ELSE HideMouse(e)

MoveP6(h, e) ==
    IF h.kind = "miss" THEN HideMouse(e)
    ELSE IF e.mesh = h.obj /\ e.mat.u_useUV /\ h.uv # NoUV
    THEN [HideMouse(e) EXCEPT !.u_mouseWorld = h.pt, !.u_mouse = h.uv, !.by = "hit"]
    ELSE [HideMouse(e) EXCEPT !.u_mouseWorld = h.pt]

MoveTsxA(h, e) ==
    IF h.kind = "miss" THEN HideMouse(e)
    ELSE IF e.mesh = h.obj /\ h.uv # NoUV
    THEN [HideMouse(e) EXCEPT !.u_mouseWorld = h.pt, !.u_mouse = h.uv, !.by = "hit"]
    ELSE [HideMouse(e) EXCEPT !.u_mouseWorld = h.pt]

MoveTsC(h, e) ==
    IF h.kind = "miss" THEN e.mat
    ELSE IF h.uv = NoUV THEN [e.mat EXCEPT !.u_mouseWorld = h.pt]
    ELSE [e.mat EXCEPT !.u_mouseWorld = h.pt, !.u_mouse = h.uv,
                       !.by = IF e.mesh = h.obj THEN "hit" ELSE "other"]

\* onPointerMove of part_000 writes the one shared material: every surface
\* gets the centre of the hit, whichever mesh was hit
MoveP0(h, e) ==
    IF h.kind = "hit" /\ h.uv # NoUV
    THEN [e.mat EXCEPT !.u_mouse = h.uv,
                       !.by = IF e.mesh = h.obj THEN "hit" ELSE "other"]
    ELSE e.mat

\* What the build's pointer-move handler does to the material of e
MoveMat(b, h, e) ==
    CASE b = "main" -> MoveMain(h, e)
      [] b = "p0"   -> MoveP0(h, e)
      [] b = "p6"   -> MoveP6(h, e)
      [] b = "tsxA" -> MoveTsxA(h, e)
      [] b = "tsC"  -> MoveTsC(h, e)
      [] OTHER      -> e.mat

\* The registry after the build's pointer-move handler has run on reg
Moved(b, h, reg) ==
    [k \in 1..Len(reg) |-> Entry(reg[k].mesh, MoveMat(b, h, reg[k]))]

\* hitMarker after a pointer-move of a standalone build
Marker(h) ==
    IF h.kind = "hit" THEN [visible |-> TRUE, pos |-> h.pt]
    ELSE [hitMarker EXCEPT !.visible = FALSE]

\* u_time after a frame: assigned the timestamp (standalone builds), or
\* advanced by the frame delta (React builds)
SetTime(e, t) == [e.mat EXCEPT !.u_time = t]

AddDelta(e, d) == [e.mat EXCEPT !.u_time = e.mat.u_time + d]

-----------------------------------------------------------------------------
(* Standalone builds: src/main.js and src/unnamed/part_006 *)

\* loader.load success callback of main.js: only meshes with uv are registered
loadMain ==
    /\ build = "main" /\ ~loaded /\ ~viewer.failed
    /\ \E a \in Assets :
        /\ asset' = a
        /\ material' = Materials(build, a)
        /\ entries' = Registry(build, overlayRev, a)
    /\ loaded' = TRUE
    /\ last' = Plain("load")
    /\ UNCHANGED <<build, overlayRev, probe, now, sharedTime, rippleMat, viewer, hitMarker, faulted>>

\* loader.load success callback of part_006: every mesh is registered
loadP6 ==
    /\ build = "p6" /\ ~loaded /\ ~viewer.failed
    /\ \E a \in Assets :
        /\ asset' = a
        /\ material' = Materials(build, a)
        /\ entries' = Registry(build, overlayRev, a)
    /\ loaded' = TRUE
    /\ last' = Plain("load")
    /\ UNCHANGED <<build, overlayRev, probe, now, sharedTime, rippleMat, viewer, hitMarker, faulted>>

\* Mutant of animate: the callback writes entries[0] instead of looping, and
\* faults on an empty registry
animateFirstEntry ==
    /\ build \in Standalone
    /\ \E d \in Deltas :
        /\ now + d <= MaxTicks
        /\ now' = now + d
        /\ IF Len(entries) = 0
           THEN faulted' = TRUE /\ UNCHANGED entries
           ELSE /\ entries' = [entries EXCEPT
                                 ![1] = Entry(entries[1].mesh, SetTime(entries[1], now + d))]
                /\ UNCHANGED faulted
        /\ last' = Tick(d)
    /\ UNCHANGED <<build, overlayRev, probe, asset, material, loaded, sharedTime, rippleMat, viewer, hitMarker>>

\* loader.load error callback of main.js and part_006: console.error only
loadError ==
    /\ build \in Standalone /\ ~loaded /\ ~viewer.failed
    /\ viewer' = [viewer EXCEPT !.failed = TRUE]
    /\ last' = Plain("reject")
    /\ UNCHANGED <<build, overlayRev, probe, asset, material, loaded, entries, now,
                   sharedTime, rippleMat, hitMarker, faulted>>

\* renderer.setAnimationLoop callback: u_time = tMS * 0.001 on every entry
animate ==
    /\ build \in Standalone
    /\ \E d \in Deltas :
        /\ now + d <= MaxTicks
        /\ now' = now + d
        /\ entries' = [k \in Slots |-> Entry(entries[k].mesh, SetTime(entries[k], now + d))]
        /\ last' = Tick(d)
    /\ UNCHANGED <<build, overlayRev, probe, asset, material, loaded, sharedTime, rippleMat, viewer, hitMarker, faulted>>

\* onPointerMove of main.js
onPointerMoveMain ==
    /\ build = "main"
    /\ IF ~loaded \/ Len(entries) = 0
       THEN /\ last' = Plain("skip")
            /\ UNCHANGED <<entries, hitMarker>>
       ELSE \E h \in RayResults(asset, entries) :
            /\ entries' = Moved(build, h, entries)
            /\ hitMarker' = Marker(h)
            /\ last' = h
    /\ UNCHANGED <<build, overlayRev, probe, asset, material, loaded, now, sharedTime, rippleMat, viewer, faulted>>

\* onPointerMove of part_006
onPointerMoveP6 ==
    /\ build = "p6"
    /\ IF ~loaded \/ Len(entries) = 0
       THEN /\ last' = Plain("skip")
            /\ UNCHANGED <<entries, hitMarker>>
       ELSE \E h \in RayResults(asset, entries) :
            /\ entries' = Moved(build, h, entries)
            /\ hitMarker' = Marker(h)
            /\ last' = h
    /\ UNCHANGED <<build, overlayRev, probe, asset, material, loaded, now, sharedTime, rippleMat, viewer, faulted>>

\* keydown listener of main.js
keydownMain ==
    /\ build = "main"
    /\ \E key \in Keys :
        /\ IF Len(entries) = 0 THEN UNCHANGED entries
           ELSE entries' = [k \in Slots |-> Entry(entries[k].mesh, KeyMat(key, entries[k]))]
        /\ last' = Plain("key")
    /\ UNCHANGED <<build, overlayRev, probe, asset, material, loaded, now, sharedTime,
                   rippleMat, viewer, hitMarker, faulted>>

-----------------------------------------------------------------------------
(* React builds: src/src/ModelViewer.tsx (two revisions), src/src/ModelViewer.ts *)

\* prepared (useMemo on [scene]) of ModelViewer.tsx, first revision: the
\* registry is emptied and rebuilt with one overlay per mesh of the clone
preparedTsxA ==
    /\ build = "tsxA"
    /\ \E a \in Assets :
        /\ asset' = a
        /\ material' = Materials(build, a)
        /\ entries' = Registry(build, overlayRev, a)
    /\ loaded' = TRUE
    /\ last' = Plain("load")
    /\ UNCHANGED <<build, overlayRev, probe, now, sharedTime, rippleMat, viewer, hitMarker, faulted>>

\* prepared (useMemo on [scene]) of ModelViewer.ts, third revision
preparedTsC ==
    /\ build = "tsC"
    /\ \E a \in Assets :
        /\ asset' = a
        /\ material' = Materials(build, a)
        /\ entries' = Registry(build, overlayRev, a)
    /\ loaded' = TRUE
    /\ last' = Plain("load")
    /\ UNCHANGED <<build, overlayRev, probe, now, sharedTime, rippleMat, viewer, hitMarker, faulted>>

\* cloned (useMemo) of ModelViewer.tsx, second revision.  overlayMat.clone()
\* copies the uniforms but not the ad-hoc __rippleUniforms property, so the
\* write to mat.__rippleUniforms.u_useUV throws at the first mesh visited,
\* before any overlay is attached.
clonedTsxB ==
    /\ build = "tsxB" /\ ~faulted
    /\ \E a \in Assets :
        /\ asset' = a
        /\ material' = Materials(build, a)
        /\ IF Len(a) > 0
           THEN faulted' = TRUE /\ loaded' = FALSE
           ELSE faulted' = FALSE /\ loaded' = TRUE
    /\ last' = Plain("load")
    /\ UNCHANGED <<build, overlayRev, probe, entries, now, sharedTime, rippleMat, viewer, hitMarker>>

\* useFrame callback of ModelViewer.tsx (first) and ModelViewer.ts (third)
useFrame ==
    /\ build \in {"tsxA", "tsC"} /\ loaded
    /\ \E d \in Deltas :
        /\ \A k \in Slots : entries[k].mat.u_time + d <= MaxTicks
        /\ entries' = [k \in Slots |-> Entry(entries[k].mesh, AddDelta(entries[k], d))]
        /\ last' = Tick(d)
    /\ UNCHANGED <<build, overlayRev, probe, asset, material, loaded, now, sharedTime,
                   rippleMat, viewer, hitMarker, faulted>>

\* useFrame callback of ModelViewer.tsx, second revision: only the shared
\* overlayMat's clock moves
useFrameTsxB ==
    /\ build = "tsxB" /\ loaded /\ ~faulted
    /\ \E d \in Deltas :
        /\ sharedTime + d <= MaxTicks
        /\ sharedTime' = sharedTime + d
        /\ last' = Tick(d)
    /\ UNCHANGED <<build, overlayRev, probe, asset, material, loaded, entries, now,
                   rippleMat, viewer, hitMarker, faulted>>

\* pointermove handler of ModelViewer.tsx, first revision
handler ==
    /\ build = "tsxA" /\ loaded
    /\ IF Len(entries) = 0
       THEN /\ last' = Plain("skip")
            /\ UNCHANGED entries
       ELSE \E h \in RayResults(asset, entries) :
            /\ entries' = Moved(build, h, entries)
            /\ last' = h
    /\ UNCHANGED <<build, overlayRev, probe, asset, material, loaded, now, sharedTime,
                   rippleMat, viewer, hitMarker, faulted>>

\* onPointerMove of ModelViewer.ts, third revision: an r3f event, delivered
\* only when the ray hits a mesh of the group; it writes every material
onPointerMoveTsC ==
    /\ build = "tsC" /\ loaded
    /\ \E h \in RayResults(asset, entries) :
        /\ entries' = Moved(build, h, entries)
        /\ last' = h
    /\ UNCHANGED <<build, overlayRev, probe, asset, material, loaded, now, sharedTime,
                   rippleMat, viewer, hitMarker, faulted>>

\* The registry of part_000: every mesh with uv carries the one rippleMat m
SharedRegistry(a, m) ==
    [k \in 1..Len(Kept("p0", a)) |-> Entry(Kept("p0", a)[k], m)]

\* cloned (useMemo on [scene, rippleMat]) of part_000: child.material =
\* rippleMat on every mesh with uv; the material keeps its uniforms
clonedP0 ==
    /\ build = "p0"
    /\ \E a \in Assets :
        /\ asset' = a
        /\ material' = Materials(build, a)
        /\ entries' = SharedRegistry(a, rippleMat)
    /\ loaded' = TRUE
    /\ last' = Plain("load")
    /\ UNCHANGED <<build, overlayRev, probe, now, sharedTime, rippleMat, viewer, hitMarker, faulted>>

\* useFrame callback of part_000: u.u_time.value += delta on the shared uniforms
useFrameP0 ==
    /\ build = "p0" /\ loaded
    /\ \E d \in Deltas :
        /\ rippleMat.u_time + d <= MaxTicks
        /\ rippleMat' = [rippleMat EXCEPT !.u_time = rippleMat.u_time + d]
        /\ entries' = [k \in Slots |-> Entry(entries[k].mesh, AddDelta(entries[k], d))]
        /\ last' = Tick(d)
    /\ UNCHANGED <<build, overlayRev, probe, asset, material, loaded, now, sharedTime,
                   viewer, hitMarker, faulted>>

\* onPointerMove of part_000: if (e.uv) u.u_mouse.value.set(e.uv.x, e.uv.y)
onPointerMoveP0 ==
    /\ build = "p0" /\ loaded
    /\ \E h \in RayResults(asset, entries) :
        /\ rippleMat' = IF h.kind = "hit" /\ h.uv # NoUV
                        THEN [rippleMat EXCEPT !.u_mouse = h.uv, !.by = "other"]
                        ELSE rippleMat
        /\ entries' = Moved(build, h, entries)
        /\ last' = h
    /\ UNCHANGED <<build, overlayRev, probe, asset, material, loaded, now, sharedTime,
                   viewer, hitMarker, faulted>>

\* onKey of ModelViewer.tsx, first revision (USE_DEBUG_KEYS)
onKey ==
    /\ build = "tsxA" /\ loaded
    /\ \E key \in Keys :
        /\ IF Len(entries) = 0 THEN UNCHANGED entries
           ELSE entries' = [k \in Slots |-> Entry(entries[k].mesh, KeyMat(key, entries[k]))]
        /\ last' = Plain("key")
    /\ UNCHANGED <<build, overlayRev, probe, asset, material, loaded, now, sharedTime,
                   rippleMat, viewer, hitMarker, faulted>>

-----------------------------------------------------------------------------
(* class ModelViewer: src/src/ModelViewer.ts, first revision *)

\* clearModel(): remove currentModel from the scene, then showInstructions()
ClearModel(v) ==
    [v EXCEPT !.inScene = v.inScene \ {v.currentModel},
              !.currentModel = 0,
              !.instructions = TRUE]

\* loadModel(filename) up to its await: showLoading(true), hideInstructions(),
\* clearModel(), then loader.loadAsync(filename) is pending
StartLoad(v, f) ==
    LET c == ClearModel([v EXCEPT !.loading = TRUE, !.instructions = FALSE])
    IN  [c EXCEPT !.loads = Append(v.loads, f),
                  !.pending = v.pending \cup {Len(v.loads) + 1},
                  !.selection = Len(v.loads) + 1]

\* init(): loadModel(default file) and the first animate()
init ==
    /\ build = "cls" /\ ~viewer.started
    /\ Len(viewer.loads) < MaxLoads
    /\ viewer' = [StartLoad(viewer, DefaultFile) EXCEPT !.started = TRUE]
    /\ last' = Event("select", Len(viewer.loads) + 1, NoUV, Origin, 0)
    /\ UNCHANGED <<build, overlayRev, probe, asset, material, loaded, entries, now,
                   sharedTime, rippleMat, hitMarker, faulted>>

\* 'change' listener of modelSelect: loadModel(value), or clearModel() for
\* the empty option
modelSelectChange ==
    /\ build = "cls"
    /\ \/ \E f \in Files :
            /\ Len(viewer.loads) < MaxLoads
            /\ viewer' = StartLoad(viewer, f)
            /\ last' = Event("select", Len(viewer.loads) + 1, NoUV, Origin, 0)
       \/ /\ viewer' = [ClearModel(viewer) EXCEPT !.selection = 0]
          /\ last' = Plain("clear")
    /\ UNCHANGED <<build, overlayRev, probe, asset, material, loaded, entries, now,
                   sharedTime, rippleMat, hitMarker, faulted>>

\* loadModel after its await, the load succeeded: currentModel = gltf.scene,
\* scene.add, fitCameraToModel, and finally showLoading(false)
loadResolved ==
    /\ build = "cls"
    /\ \E id \in viewer.pending :
        /\ viewer' = [viewer EXCEPT !.currentModel = id,
                                    !.inScene = viewer.inScene \cup {id},
                                    !.camera = "fit",
                                    !.loading = FALSE,
                                    !.pending = viewer.pending \ {id}]
        /\ last' = Event("resolve", id, NoUV, Origin, 0)
    /\ UNCHANGED <<build, overlayRev, probe, asset, material, loaded, entries, now,
                   sharedTime, rippleMat, hitMarker, faulted>>

\* loadModel after its await, the load failed: catch (console.error, alert)
\* and finally showLoading(false)
loadRejected ==
    /\ build = "cls"
    /\ \E id \in viewer.pending :
        /\ viewer' = [viewer EXCEPT !.loading = FALSE,
                                    !.pending = viewer.pending \ {id},
                                    !.failed = TRUE]
        /\ last' = Event("reject", id, NoUV, Origin, 0)
    /\ UNCHANGED <<build, overlayRev, probe, asset, material, loaded, entries, now,
                   sharedTime, rippleMat, hitMarker, faulted>>

\* resetCamera(): fit to the model if there is one, else back to (5,5,5)
resetCamera ==
    /\ build = "cls"
    /\ viewer' = [viewer EXCEPT
                    !.camera = IF viewer.currentModel # 0 THEN "fit" ELSE "home"]
    /\ last' = Plain("reset")
    /\ UNCHANGED <<build, overlayRev, probe, asset, material, loaded, entries, now,
                   sharedTime, rippleMat, hitMarker, faulted>>

\* animate of the class: controls.update() applies the user's orbiting, then
\* the scene is rendered
animateViewer ==
    /\ build = "cls" /\ viewer.started
    /\ \E c \in {viewer.camera, "orbit"} : viewer' = [viewer EXCEPT !.camera = c]
    /\ last' = Tick(1)
    /\ UNCHANGED <<build, overlayRev, probe, asset, material, loaded, entries, now,
                   sharedTime, rippleMat, hitMarker, faulted>>

-----------------------------------------------------------------------------
(* Ripple field evaluator: the fragment shaders of main.js and part_006 *)

\* One tick of u_time is a quarter of a second
TickLen == Unit \div 4
Seconds(t) == t * TickLen

\* u_worldRadiusMul of part_006
WorldRadiusMul == 2800

\* radialMask(d, r) with fwidth(d) = fw
radialMask(d, r, fw) ==
    LET w == fw * 2 IN Unit - Smoothstep(r - w, r + w, d)

\* gaussianRing(dist, sigma, t, speed) with fwidth(dist) = fw
gaussianRing(dist, sigma, t, speed, fw) ==
    LET rc == (Seconds(t) * speed) \div Unit
        g == Gauss((Abs(dist - rc) * Unit) \div Max(sigma, 1))
        fwr == (fw * 3) \div 2
        g2 == Gauss((Abs(dist - rc) * Unit) \div Max(sigma + fwr, 1))
    IN  (g + g2) \div 2

\* area * ring * u_intensity
Amount(area, ring, intensity) == (((area * ring) \div Unit) * intensity) \div Unit

\* amt of main() in main.js for a fragment with vUv = uv
shaderMain(m, uv, fw) ==
    LET center == IF m.u_mode = 2 THEN Center ELSE m.u_mouse
        d == Length2(uv, center)
    IN  Amount(radialMask(d, m.u_radius, fw),
               gaussianRing(d, m.u_sigma, m.u_time, m.u_speed, fw),
               m.u_intensity)

\* amt of main() in part_006 for a fragment with vUv = uv, vWorldPos = wp
shaderP6(m, uv, wp, fw) ==
    IF m.u_useUV /\ m.u_mouse[1] >= 0
    THEN LET d == Length2(uv, m.u_mouse)
         IN  Amount(radialMask(d, m.u_radius, fw),
                    gaussianRing(d, m.u_sigma, m.u_time, m.u_speed, fw),
                    m.u_intensity)
    ELSE LET d == Length3(wp, m.u_mouseWorld)
             r == (m.u_radius * WorldRadiusMul) \div Unit
         IN  Amount(radialMask(d, r, fw),
                    gaussianRing(d, m.u_sigma \div 2, m.u_time, m.u_speed, fw),
                    m.u_intensity)

\* The ring centre radius the build's fragment shader uses for material m:
\* rc = t * speed in main.js and part_006 (and in the overlay revision that
\* starts at the centre); mod(u_time * u_speed, u_radius) in overlayRipple.ts
RingRadius(b, rev, m) ==
    LET rc == (Seconds(m.u_time) * m.u_speed) \div Unit
    IN  IF b \in Standalone \/ rev = "centre" THEN rc ELSE GlslMod(rc, m.u_radius)

\* The overlay fragment shader of overlayRipple.ts (first revision).
\* ringIntensity = 1 - smoothstep(0, u_sigma, |dist - ringRadius|); GLSL
\* leaves smoothstep undefined unless edge0 < edge1, and ringRadius is
\* undefined for u_radius = 0; undef is the value the GPU then happens to
\* produce
overlayRing(m, dist, undef) ==
    IF m.u_sigma <= 0 \/ m.u_radius = 0 THEN undef
    ELSE Unit - Smoothstep(0, m.u_sigma, Abs(dist - RingRadius("tsC", "hidden", m)))

\* fadeFactor = 1 - ringRadius / u_radius
overlayFade(m) ==
    Unit - FloorDiv(RingRadius("tsC", "hidden", m) * Unit, m.u_radius)

\* mask = 1 - smoothstep(u_radius - 0.05, u_radius, dist)
overlayMask(m, dist) == Unit - Smoothstep(m.u_radius - 50, m.u_radius, dist)

\* finalIntensity of main() for a fragment with vUv = uv: nothing is drawn in
\* the debug modes' place or while u_mouse is off-screen; otherwise
\* ringIntensity * fadeFactor * mask * u_intensity * 5.0.  With u_radius = 0
\* both mod(x, 0.0) and ringRadius / u_radius are undefined, and so is the
\* product
overlayFrag(m, uv, undef) ==
    IF m.u_mouse[1] < 0 \/ m.u_mouse[2] < 0 THEN 0
    ELSE IF m.u_radius = 0 THEN (undef * m.u_intensity * 5) \div Unit
    ELSE LET dist == Length2(uv, m.u_mouse)
             rf == (overlayRing(m, dist, undef) * overlayFade(m)) \div Unit
         IN  Amount(rf, overlayMask(m, dist), m.u_intensity) * 5

\* Fragments of the mesh of registry slot k: vUv reads (0,0) when the
\* geometry has no uv attribute
Fragments(k) ==
    [uv : IF asset[entries[k].mesh].uv THEN UVPoints ELSE {<<0, 0>>},
     wp : WorldPoints, fw : FWidths]

\* Intensity the evaluation pass of a standalone build yields at fragment fr
Intensity(k, fr) ==
    IF build = "main" THEN shaderMain(entries[k].mat, fr.uv, fr.fw)
    ELSE shaderP6(entries[k].mat, fr.uv, fr.wp, fr.fw)

\* The shader of the build evaluates the surface of e by world distance
WorldFallback(e) ==
    CASE build = "p6" -> ~(e.mat.u_useUV /\ e.mat.u_mouse[1] >= 0)
      [] build = "tsC" /\ overlayRev = "centre" -> ~e.mat.u_useUV
      [] OTHER -> FALSE

\* The evaluator draws a ripple on the surface of e: its centre is not the
\* hidden sentinel, or it is evaluated around u_mouseWorld, which has none
Lit(e) == WorldFallback(e) \/ Active(e)

\* The ripple centre the evaluator uses for the surface of e
EvalCentre(e) == IF WorldFallback(e) THEN e.mat.u_mouseWorld ELSE e.mat.u_mouse

\* The UV centre and the world centre of every surface, as the evaluator reads them
Centres(reg) == [k \in 1..Len(reg) |-> <<reg[k].mat.u_mouse, reg[k].mat.u_mouseWorld>>]

-----------------------------------------------------------------------------
(* The fragment shaders as pure functions of drawn uniforms *)

\* Ripple parameters a caller can supply: ring thickness 0 and the invalid
\* negative thickness, non-positive radius and negative speed included
Sigmas == {-50, 0, 50, 100}
Radii == {-100, 0, 20, 300, 500}
Speeds == {-800, 0, 1200}
Intensities == {1000, 2000}

\* The uniforms of a material with drawn parameters at time t
ProbeMats ==
    {[Mat(c, r, sg, sp, 1000) EXCEPT !.u_time = t, !.u_intensity = i] :
        c \in UVPoints, r \in Radii, sg \in Sigmas, sp \in Speeds,
        i \in Intensities, t \in 0..MaxTicks}

\* The inputs of one evaluation: uniforms, the fragment's vUv and fwidth
ProbeInputs == [shader : {"none"}, mat : ProbeMats, uv : UVPoints, fw : FWidths]

\* The quantities gaussianRing of main.js divides by:
\* max(sigma, 1e-4) and max(sigma + fw, 1e-4)
mainDivisors(m, fw) == {Max(m.u_sigma, 1), Max(m.u_sigma + (fw * 3) \div 2, 1)}

\* The quantities the overlay shader divides by for the ring: the width
\* (ringWidth - 0.0) of smoothstep(0.0, ringWidth, ringDist), ringWidth =
\* u_sigma, and u_radius in mod() and in fadeFactor
overlayDivisors(m) == {m.u_sigma - 0, m.u_radius}

\* Distances at which an area mask is sampled
Distances == {0, 10, 20, 50, 100, 250, 300, 320, 500, 600}

\* The area mask the probed shader yields at distance d: radialMask of
\* main.js, mask of the overlay shader
areaMask(p, d) ==
    IF p.shader = "main" THEN radialMask(d, p.mat.u_radius, p.fw)
    ELSE overlayMask(p.mat, d)

\* The width of the mask's transition band beyond the radius: w = 2 *
\* fwidth(d) in radialMask, none in the overlay shader (its band ends at
\* u_radius)
band(p) == IF p.shader = "main" THEN p.fw * 2 ELSE 0

\* One evaluation of main() of main.js on the drawn inputs
evalMain ==
    /\ probe.shader = "none"
    /\ LET m == probe.mat
           d == Length2(probe.uv, m.u_mouse)
       IN  probe' = [shader |-> "main", mat |-> m, uv |-> probe.uv, fw |-> probe.fw,
                     dist |-> d,
                     divisors |-> mainDivisors(m, probe.fw),
                     area |-> radialMask(d, m.u_radius, probe.fw),
                     ring |-> gaussianRing(d, m.u_sigma, m.u_time, m.u_speed, probe.fw),
                     out |-> shaderMain(m, probe.uv, probe.fw)]
    /\ UNCHANGED <<build, overlayRev, asset, material, loaded, entries, now,
                   sharedTime, rippleMat, viewer, hitMarker, faulted, last>>

\* One evaluation of main() of the overlay shader of overlayRipple.ts on the
\* drawn inputs; where GLSL leaves a result undefined (smoothstep with
\* u_sigma <= 0, mod and division with u_radius = 0) it may be either extreme
evalOverlay ==
    /\ probe.shader = "none"
    /\ \E undef \in {0, Unit} :
        LET m == probe.mat
            d == Length2(probe.uv, m.u_mouse)
        IN  probe' = [shader |-> "overlay", mat |-> m, uv |-> probe.uv, fw |-> probe.fw,
                      dist |-> d,
                      divisors |-> overlayDivisors(m),
                      area |-> overlayMask(m, d),
                      ring |-> overlayRing(m, d, undef),
                      out |-> overlayFrag(m, probe.uv, undef)]
    /\ UNCHANGED <<build, overlayRev, asset, material, loaded, entries, now,
                   sharedTime, rippleMat, viewer, hitMarker, faulted, last>>

\* Lengths of the scene, in units of 1e-4: 1.0, and the floor 1e-4 that
\* Math.max(size.x, size.y, size.z, 1e-4) puts under the largest dimension
One == 100 * 100
MinDim == 1

\* Extents <<min, max>> a bounding box can have along one axis
Extents == {<<0, 0>>, <<0, One>>, <<One, 3 * One>>, <<-2 * One, 2 * One>>}

\* An object with an identity transform whose Box3 is box (one extent per
\* axis), and the targetSize it is to be scaled to
ObjectInputs ==
    [shader : {"object"}, box : [1..3 -> Extents], targetSize : {One, 2 * One}]

\* Box3.getSize / getCenter along axis i
BoxSize(box, i) == box[i][2] - box[i][1]
BoxCenter(box, i) == (box[i][1] + box[i][2]) \div 2

\* centerAndScaleToUnit(object, targetSize): position.sub(center), then
\* scale.setScalar(targetSize / maxDim).  The scale is kept as the fraction
\* num / den; world is the object's world bounding box afterwards, each
\* corner p of the box mapped to position + scale * p
centerAndScaleToUnit ==
    /\ probe.shader = "object"
    /\ LET box == probe.box
           maxDim == Max(Max(BoxSize(box, 1), BoxSize(box, 2)),
                         Max(BoxSize(box, 3), MinDim))
           position == [i \in 1..3 |-> 0 - BoxCenter(box, i)]
       IN  probe' = [shader |-> "scaled", box |-> box, targetSize |-> probe.targetSize,
                     position |-> position,
                     scale |-> [num |-> probe.targetSize, den |-> maxDim],
                     world |-> [i \in 1..3 |->
                                 <<position[i] + (probe.targetSize * box[i][1]) \div maxDim,
                                   position[i] + (probe.targetSize * box[i][2]) \div maxDim>>]]
    /\ UNCHANGED <<build, overlayRev, asset, material, loaded, entries, now,
                   sharedTime, rippleMat, viewer, hitMarker, faulted, last>>

EvalInit == ViewerInit /\ build = "main" /\ probe \in ProbeInputs \cup ObjectInputs

EvalNext ==
    \/ evalMain
    \/ evalOverlay
    \/ centerAndScaleToUnit

EvalSpec == EvalInit /\ [][EvalNext]_vars

-----------------------------------------------------------------------------

Next ==
    \/ loadMain
    \/ loadP6
    \/ animate
    \/ onPointerMoveMain
    \/ onPointerMoveP6
    \/ keydownMain
    \/ preparedTsxA
    \/ preparedTsC
    \/ clonedTsxB
    \/ useFrame
    \/ useFrameTsxB
    \/ handler
    \/ onPointerMoveTsC
    \/ onKey
    \/ clonedP0
    \/ useFrameP0
    \/ onPointerMoveP0
    \/ loadError
    \/ init
    \/ modelSelectChange
    \/ loadResolved
    \/ loadRejected
    \/ resetCamera
    \/ animateViewer

Spec == Init /\ [][Next]_vars


-----------------------------------------------------------------------------
(* Properties *)

PointerKinds == {"hit", "miss"}
HitCoord(h) == IF h.uv # NoUV THEN h.uv ELSE h.pt

\* C1: right after a pointer-move whose ray hits a registered surface, at
\* most one registered surface is ACTIVE and every surface other than the
\* hit one is IDLE.
C1_HitExclusive ==
    (last.kind = "hit" /\ Registered(last.obj)) =>
        /\ Cardinality(ActiveSlots) <= 1
        /\ \A k \in Slots : entries[k].mesh # last.obj => ~Active(entries[k])

\* C2: right after a pointer-move whose ray hits nothing, every registered
\* surface is IDLE and the evaluation pass yields intensity 0 at every
\* fragment of every surface (standalone builds, whose shaders are modelled).
C2_MissClears ==
    (build \in Standalone /\ last.kind = "miss") =>
        /\ ActiveSlots = {}
        /\ \A k \in Slots : \A fr \in Fragments(k) : Intensity(k, fr) = 0

\* C3: right after a pointer-move whose nearest hit is on registered surface
\* s, the centre the evaluator uses for s is that hit's coordinate (its uv,
\* or its world point when the hit carries no uv).
C3_HitActivates ==
    (last.kind = "hit" /\ Registered(last.obj)) =>
        \A k \in Slots :
            entries[k].mesh = last.obj => EvalCentre(entries[k]) = HitCoord(last)

\* C4: in every reachable state at most one registered surface is ACTIVE.
C4_AtMostOneActive == Cardinality(ActiveSlots) <= 1

\* C5: the centre of an ACTIVE surface was written by a pointer-move whose
\* hit object is that surface, never by initialisation, a debug key or a hit
\* on another object.
C5_CentreFromOwnHit ==
    \A k \in Slots : Active(entries[k]) => entries[k].mat.by = "hit"

\* C6: right after a (re)load completes, the registry holds exactly one entry
\* per mesh of the new asset and every registered surface is IDLE.
C6_LoadRegistersIdle ==
    (last.kind = "load" /\ loaded) =>
        /\ \A i \in 1..Len(asset) :
              Cardinality({k \in Slots : entries[k].mesh = i}) = 1
        /\ \A k \in Slots : entries[k].mesh \in 1..Len(asset)
        /\ ActiveSlots = {}

\* C7: no step (frame tick, pointer-move, debug key, (re)load) makes the
\* u_time of a registered surface smaller.
C7_TimeMonotonic ==
    [][\A k \in Slots : \A j \in 1..Len(entries') :
          entries'[j].mesh = entries[k].mesh =>
              entries'[j].mat.u_time >= entries[k].mat.u_time]_vars

\* C8: every frame tick advances the u_time of every registered surface by
\* the frame delta.
C8_TickAddsDelta ==
    [][last'.kind = "tick" =>
          /\ Len(entries') = Len(entries)
          /\ \A k \in Slots :
                entries'[k].mat.u_time = entries[k].mat.u_time + last'.dt]_vars

C10_LastWriteWins ==
    last.kind \in PointerKinds =>
        Centres(entries) = Centres(Moved(build, last, Registry(build, overlayRev, asset)))

\* C11: with zero registered surfaces, every pointer-move, frame tick and
\* debug key completes without fault, locates nothing, and leaves the
\* registry empty (so no surface is ACTIVE) and the hit marker as it was.
C11_EmptyRegistryStable ==
    [][(Len(entries) = 0 /\ ~faulted /\ last'.kind \in {"skip", "miss", "hit", "tick", "key"}) =>
          /\ ~faulted'
          /\ last'.kind # "hit"
          /\ Len(entries') = 0
          /\ hitMarker'.visible = hitMarker.visible]_vars

\* The asset has loaded without an eligible mesh, and a pointer-move, a frame
\* tick or a key has been handled on the empty registry
C11_Witness ==
    /\ loaded /\ Len(asset) > 0 /\ Len(entries) = 0 /\ ~faulted
    /\ last.kind \in {"skip", "tick", "key"}

\* C12: right after a pointer-move has been handled, the same raycast result
\* is still what the unchanged scene yields, and handling the event a second
\* time leaves the registry and the hit marker exactly as they are.
C12_MoveIdempotent ==
    last.kind \in PointerKinds =>
        /\ last \in RayResults(asset, entries)
        /\ Moved(build, last, entries) = entries
        /\ build \in Standalone => Marker(last) = hitMarker

\* A pointer-move has hit a registered surface and written its centre while
\* another registered surface was hidden
C12_Witness ==
    /\ last.kind = "hit" /\ Len(entries) = 2
    /\ \E k \in Slots : entries[k].mat.by = "hit" /\ entries[k].mat.u_mouse = last.uv

\* C13: once the asset has loaded, every mesh of it is registered; its
\* u_useUV is set exactly when its geometry has a uv attribute; and a mesh
\* without uv is evaluated by world distance, never by the UV path.
C13_NoUVWorldMode ==
    loaded =>
        \A i \in 1..Len(asset) :
            \E k \in Slots :
                /\ entries[k].mesh = i
                /\ entries[k].mat.u_useUV = asset[i].uv
                /\ ~asset[i].uv => WorldFallback(entries[k])

\* C14: right after a pointer-move that hits a registered surface without uv,
\* that surface is evaluated around the hit's world point and the evaluator
\* draws a ripple on no other surface.
C14_WorldHitActivates ==
    (last.kind = "hit" /\ last.uv = NoUV /\ Registered(last.obj)) =>
        \A k \in Slots :
            IF entries[k].mesh = last.obj
            THEN WorldFallback(entries[k]) /\ entries[k].mat.u_mouseWorld = last.pt
            ELSE ~Lit(entries[k])

\* C15: surfaces have independent ripple states: a pointer-move that hits one
\* surface leaves the centre of every other surface as it was or clears it;
\* no other surface receives the centre written for the hit one.
C15_IndependentStates ==
    [][(last'.kind = "hit" /\ Len(entries') = Len(entries)) =>
          \A k \in Slots :
              entries[k].mesh # last'.obj =>
                  entries'[k].mat.u_mouse \in {entries[k].mat.u_mouse, Hidden}]_vars

\* C16: over a frame tick on a surface that stays ACTIVE, the ring centre
\* radius the shader uses does not decrease and equals elapsedTime * speed.
C16_RingGrows ==
    [][(last'.kind = "tick" /\ build \in {"main", "p6", "tsxA", "tsC"}
            /\ Len(entries') = Len(entries)) =>
          \A k \in Slots :
              (Active(entries[k]) /\ Active(entries'[k])) =>
                  /\ RingRadius(build, overlayRev, entries'[k].mat)
                        >= RingRadius(build, overlayRev, entries[k].mat)
                  /\ RingRadius(build, overlayRev, entries'[k].mat)
                        = (Seconds(entries'[k].mat.u_time) * entries'[k].mat.u_speed) \div Unit]_vars

\* C17: once the ripple effect is attached to the loaded asset, every mesh
\* still renders with its base material and every mesh carries an overlay
\* (a registered ripple material drawn on top).
C17_BasePreserved ==
    loaded =>
        \A i \in 1..Len(asset) : material[i] = "base" /\ Registered(i)

\* C18: right after an asset load has failed the viewer has no model
\* (currentModel = null, none in the scene), no registered surface and a
\* hidden loading indicator; and no event after a failed load faults.
C18_LoadFailureStable ==
    /\ last.kind = "reject" =>
          /\ viewer.currentModel = 0 /\ viewer.inScene = {}
          /\ Len(entries) = 0
          /\ ~viewer.loading
    /\ viewer.failed => ~faulted

\* C19: at every fragment of every registered surface the evaluated intensity
\* equals areaMask * ring * u_intensity and lies in [0, u_intensity]
\* (standalone shaders and the overlay shader of overlayRipple.ts).
C19_IntensityBounded ==
    \A k \in Slots : \A fr \in Fragments(k) :
        LET m == entries[k].mat
        IN  /\ build \in Standalone => Intensity(k, fr) \in 0..m.u_intensity
            /\ (build \in {"tsxA", "tsC"} /\ overlayRev = "hidden") =>
                  /\ overlayFrag(m, fr.uv, 0) \in 0..m.u_intensity
                  /\ overlayFrag(m, fr.uv, 0)
                        = Amount(overlayMask(m, Length2(fr.uv, m.u_mouse)),
                                 overlayRing(m, Length2(fr.uv, m.u_mouse), 0),
                                 m.u_intensity)

\* C20: whatever ring thickness >= 0 the caller supplies, 0 included, every
\* quantity the shader divides by for the ring is strictly positive.
C20_NoDivisionByZero ==
    probe.shader \in {"main", "overlay"} => \A d \in probe.divisors : d > 0

\* C21: for radius <= 0 the evaluated intensity is 0 at every coordinate,
\* the ripple centre included, and at every time.
C21_ZeroFieldForBadRadius ==
    (probe.shader \in {"main", "overlay"} /\ probe.mat.u_radius <= 0) => probe.out = 0

\* C22: with a negative ring thickness or a negative speed the evaluator
\* yields intensity 0 at every coordinate and every time.
C22_ZeroFieldForBadParams ==
    (probe.shader \in {"main", "overlay"} /\ (probe.mat.u_sigma < 0 \/ probe.mat.u_speed < 0)) =>
        probe.out = 0

\* C23: for valid parameters, elapsedTime >= 0 and distance >= 0 the ring
\* value lies in [0, 1] and is at its maximum 1 exactly when the distance
\* equals elapsedTime * speed.
C23_RingPeak ==
    (/\ probe.shader \in {"main", "overlay"}
     /\ probe.mat.u_radius > 0 /\ probe.mat.u_sigma >= 0 /\ probe.mat.u_speed >= 0) =>
        /\ probe.ring \in 0..Unit
        /\ probe.ring = Unit <=>
               probe.dist = (Seconds(probe.mat.u_time) * probe.mat.u_speed) \div Unit

\* C24: for every radius > 0 the area mask is monotonically non-increasing
\* in the distance, equals 1 at distance 0, and is 0 beyond the radius plus
\* the transition band.
C24_AreaMaskShape ==
    (probe.shader \in {"main", "overlay"} /\ probe.mat.u_radius > 0) =>
        /\ \A d1, d2 \in Distances :
               d1 <= d2 => areaMask(probe, d1) >= areaMask(probe, d2)
        /\ probe.dist = 0 => probe.area = Unit
        /\ probe.dist > probe.mat.u_radius + band(probe) => probe.area = 0

\* C25: under any interleaving of loadModel and clearModel calls the scene
\* contains at most one loaded model, and that model is currentModel.
C25_OneModelInScene ==
    build = "cls" =>
        viewer.inScene = (IF viewer.currentModel = 0 THEN {} ELSE {viewer.currentModel})

\* C26: once every pending load has settled (none of them having failed),
\* the model shown is the file selected last, and no model at all if the
\* empty option was selected last, whatever the order the loads resolved in.
C26_LastSelectionShown ==
    (build = "cls" /\ viewer.pending = {} /\ ~viewer.failed) =>
        IF viewer.selection = 0 THEN viewer.currentModel = 0
        ELSE /\ viewer.currentModel # 0
             /\ viewer.loads[viewer.currentModel] = viewer.loads[viewer.selection]

\* C27: once loadModel has been called, the loading indicator is visible
\* exactly while at least one loadModel call is still in flight.
C27_LoadingWhileInFlight ==
    (build = "cls" /\ Len(viewer.loads) > 0) =>
        (viewer.loading <=> viewer.pending # {})

\* C28: whenever a model is displayed the instructions panel is hidden, and
\* (once loadModel has been called) whenever no model is displayed and no
\* load is in flight the panel is shown.
C28_InstructionsPanel ==
    build = "cls" =>
        /\ viewer.currentModel # 0 => ~viewer.instructions
        /\ (viewer.currentModel = 0 /\ viewer.pending = {} /\ Len(viewer.loads) > 0) =>
               viewer.instructions

\* C29: in the overlay builds, preparing a loaded asset completes and leaves
\* exactly one overlay per base mesh of the asset, nested meshes included,
\* and no further overlay.
C29_OneOverlayPerMesh ==
    (build \in {"tsxA", "tsxB", "tsC"} /\ last.kind = "load") =>
        /\ ~faulted
        /\ Len(entries) = Len(asset)
        /\ \A i \in 1..Len(asset) :
               Cardinality({k \in Slots : entries[k].mesh = i}) = 1

\* C30: after centerAndScaleToUnit on an object with an identity transform
\* the world bounding box is centred at the origin and its largest dimension
\* is targetSize; for a zero-size box the scale has a positive denominator.
C30_CentredAndScaled ==
    probe.shader = "scaled" =>
        /\ probe.scale.den > 0
        /\ (\E i \in 1..3 : BoxSize(probe.box, i) > 0) =>
              /\ \A i \in 1..3 : probe.world[i][1] + probe.world[i][2] = 0
              /\ \A i \in 1..3 : BoxSize(probe.world, i) <= probe.targetSize
              /\ \E i \in 1..3 : BoxSize(probe.world, i) = probe.targetSize

=============================================================================
